---- MODULE Spec2Model ----
(***************************************************************************)
(* A model of the quiz solver: the /solve request handler (main.py) and    *)
(* the chain driver QuizSolver.solve_quiz_chain with its text extractors   *)
(* (quiz_solver.py).                                                       *)
(*                                                                         *)
(* Python strings are sequences of one-character strings, so that the      *)
(* regular expressions and parsers of the code are computed, not assumed.  *)
(* Python's None is the one-element tuple None below: no modelled string   *)
(* equals it, since every string holds one-character elements only.        *)
(***************************************************************************)
EXTENDS Integers, Sequences, FiniteSets, TLC

None == <<"None">>

\* Python truthiness of an Optional[str]: None and "" are falsy.
Truthy(v) == v # None /\ v # <<>>

Min(S) == CHOOSE x \in S : \A y \in S : x <= y

Max(S) == CHOOSE x \in S : \A y \in S : x >= y

\* s[:n]
Take(s, n) == SubSeq(s, 1, IF Len(s) < n THEN Len(s) ELSE n)

----------------------------------------------------------------------------
\* Characters

UpperChars == <<"A","B","C","D","E","F","G","H","I","J","K","L","M",
                "N","O","P","Q","R","S","T","U","V","W","X","Y","Z">>

LowerChars == <<"a","b","c","d","e","f","g","h","i","j","k","l","m",
                "n","o","p","q","r","s","t","u","v","w","x","y","z">>

DigitChars == <<"0","1","2","3","4","5","6","7","8","9">>

\* str.lower() on one character
Lower(c) ==
    IF \E i \in 1..26 : UpperChars[i] = c
    THEN LowerChars[CHOOSE i \in 1..26 : UpperChars[i] = c]
    ELSE c

LowerStr(s) == [i \in 1..Len(s) |-> Lower(s[i])]

\* the characters \s matches and str.strip() removes
IsSpace(c) == c \in {" ", "\t", "\n", "\r"}

IsDigit(c) == \E i \in 1..10 : DigitChars[i] = c

DigitVal(c) == (CHOOSE i \in 1..10 : DigitChars[i] = c) - 1

\* the value of a non-empty run of decimal digits
RECURSIVE DigitsVal(_)
DigitsVal(s) ==
    IF Len(s) = 0 THEN 0
    ELSE 10 * DigitsVal(SubSeq(s, 1, Len(s) - 1)) + DigitVal(s[Len(s)])

\* str(n) for a natural number
RECURSIVE Dec(_)
Dec(n) ==
    IF n < 10 THEN <<DigitChars[n + 1]>>
    ELSE Dec(n \div 10) \o <<DigitChars[(n % 10) + 1]>>

\* str.strip()
Strip(s) ==
    LET keep == {i \in 1..Len(s) : ~IsSpace(s[i])}
    IN  IF keep = {} THEN <<>> ELSE SubSeq(s, Min(keep), Max(keep))

\* pat occurs in s at index i
OccursAt(s, i, pat) ==
    /\ i >= 1
    /\ i + Len(pat) - 1 <= Len(s)
    /\ SubSeq(s, i, i + Len(pat) - 1) = pat

\* the same, ignoring case (re.IGNORECASE)
OccursAtNoCase(s, i, pat) ==
    /\ i >= 1
    /\ i + Len(pat) - 1 <= Len(s)
    /\ LowerStr(SubSeq(s, i, i + Len(pat) - 1)) = LowerStr(pat)

----------------------------------------------------------------------------
\* QuizSolver.extract_submit_url:
\*   re.search(r'Post your answer to (https?://[^\s\)]+)', text)

PostPhrase == <<"P","o","s","t"," ","y","o","u","r"," ","a","n","s","w","e","r",
                " ","t","o"," ">>

Http == <<"h","t","t","p">>

SchemeSep == <<":","/","/">>

\* [^\s]: the character class without the ')'
IsUrlCharAnyParen(c) == ~IsSpace(c)

\* [^\s\)]
IsUrlChar(c) == ~IsSpace(c) /\ c # ")"

\* the index after 'https?://' when the phrase and the scheme match at i, else 0
SchemeEnd(text, i) ==
    LET h == i + Len(PostPhrase)
        a == h + Len(Http)
    IN  IF ~(OccursAt(text, i, PostPhrase) /\ OccursAt(text, h, Http)) THEN 0
        ELSE IF OccursAt(text, a, <<"s">> \o SchemeSep) THEN a + 4
        ELSE IF OccursAt(text, a, SchemeSep) THEN a + 3
        ELSE 0

\* the last index of the greedy run [^\s\)]+ starting at j (j - 1 when it is empty)
UrlRunEnd(text, j) ==
    LET stops == {k \in j..Len(text) : ~IsUrlChar(text[k])}
    IN  IF stops = {} THEN Len(text) ELSE Min(stops) - 1

SubmitMatchAt(text, i) ==
    /\ SchemeEnd(text, i) # 0
    /\ UrlRunEnd(text, SchemeEnd(text, i)) >= SchemeEnd(text, i)

extract_submit_url(text) ==
    LET hits == {i \in 1..Len(text) : SubmitMatchAt(text, i)}
    IN  IF hits = {} THEN None
        ELSE LET i == Min(hits)
             IN  SubSeq(text, i + Len(PostPhrase), UrlRunEnd(text, SchemeEnd(text, i)))

----------------------------------------------------------------------------
\* QuizSolver.extract_final_answer

Marker == <<"F","I","N","A","L","_","A","N","S","W","E","R",":">>

\* Python values an answer can be (the model's AnswerValue), each a record
\* with the one field that names its type
PyInt(n) == [int |-> n]

PyBool(b) == [bool |-> b]

PyStr(s) == [str |-> s]

PyNull == [null |-> TRUE]

\* the index after the greedy \s* that starts at j
SpaceRunEnd(text, j) ==
    LET stops == {k \in j..Len(text) : ~IsSpace(text[k])}
    IN  IF stops = {} THEN Len(text) + 1 ELSE Min(stops)

\* the lazy (.+?)(?:\n|$) from s, s <= Len(text): one character at least, then
\* up to the next newline or the end of the text (DOTALL: the first character
\* may itself be a newline)
LazyLine(text, s) ==
    LET stops == {e \in (s + 1)..Len(text) : text[e] = "\n"}
    IN  SubSeq(text, s, IF stops = {} THEN Len(text) ELSE Min(stops) - 1)

\* re.search(r'FINAL_ANSWER:\s*(.+?)(?:\n|$)', response, IGNORECASE | DOTALL):
\* the marker matches at i and a character follows it (\s* gives its last
\* character back to (.+?) when only whitespace follows the marker)
MarkerMatchAt(text, i) ==
    /\ OccursAtNoCase(text, i, Marker)
    /\ i + Len(Marker) <= Len(text)

MarkerCapture(text, i) ==
    LET j == i + Len(Marker)
        k == SpaceRunEnd(text, j)
    IN  IF k <= Len(text) THEN LazyLine(text, k) ELSE LazyLine(text, Len(text))

\* str.split('\n')
RECURSIVE SplitLines(_)
SplitLines(s) ==
    LET nl == {i \in 1..Len(s) : s[i] = "\n"}
    IN  IF nl = {} THEN <<s>>
        ELSE <<SubSeq(s, 1, Min(nl) - 1)>> \o SplitLines(SubSeq(s, Min(nl) + 1, Len(s)))

\* [l.strip() for l in response.strip().split('\n') if l.strip()][-1], or
\* response.strip() when there is none
LastLine(text) ==
    LET ls   == SplitLines(Strip(text))
        full == {i \in 1..Len(ls) : Strip(ls[i]) # <<>>}
    IN  IF full = {} THEN Strip(text) ELSE Strip(ls[Max(full)])

\* the text the parsers are tried on (lines 195-201)
AnswerText(response) ==
    LET hits == {i \in 1..Len(response) : MarkerMatchAt(response, i)}
    IN  IF hits = {} THEN LastLine(response)
        ELSE Strip(MarkerCapture(response, Min(hits)))

AllDigits(s) == Len(s) > 0 /\ \A i \in 1..Len(s) : IsDigit(s[i])

\* a JSON integer: -? (0 | [1-9][0-9]*)
IsJsonInt(s) ==
    LET d == IF Len(s) > 0 /\ s[1] = "-" THEN Tail(s) ELSE s
    IN  AllDigits(d) /\ (Len(d) = 1 \/ d[1] # "0")

\* what int(s) accepts of a stripped string: [+-]? digits (leading zeros allowed)
IsPyInt(s) ==
    LET d == IF Len(s) > 0 /\ s[1] \in {"-", "+"} THEN Tail(s) ELSE s
    IN  AllDigits(d)

SignedVal(s) ==
    IF s[1] = "-" THEN 0 - DigitsVal(Tail(s))
    ELSE IF s[1] = "+" THEN DigitsVal(Tail(s))
    ELSE DigitsVal(s)

JsonTrue == <<"t","r","u","e">>

JsonFalse == <<"f","a","l","s","e">>

JsonNull == <<"n","u","l","l">>

\* a JSON string without escapes: "..."
IsJsonString(s) ==
    /\ Len(s) >= 2
    /\ s[1] = "\"" /\ s[Len(s)] = "\""
    /\ \A i \in 2..(Len(s) - 1) : s[i] \notin {"\"", "\\"}

\* a JSON document that is no object or array
IsJsonScalar(s) == IsJsonInt(s) \/ IsJsonString(s) \/ s \in {JsonTrue, JsonFalse, JsonNull}

PyDict(f) == [dict |-> f]

JsonScalar(s) ==
    IF IsJsonInt(s) THEN PyInt(SignedVal(s))
    ELSE IF IsJsonString(s) THEN PyStr(SubSeq(s, 2, Len(s) - 1))
    ELSE IF s = JsonTrue THEN PyBool(TRUE)
    ELSE IF s = JsonFalse THEN PyBool(FALSE)
    ELSE PyNull

\* the index of the ':' that follows the key of a one-member object, else 0
MemberColon(s) ==
    LET quotes == {i \in 3..Len(s) : s[i] = "\""}
        q      == IF quotes = {} THEN 0 ELSE Min(quotes)
        colons == {i \in (q + 1)..Len(s) : s[i] = ":"}
    IN  IF q = 0 \/ colons = {} THEN 0 ELSE Min(colons)

\* a JSON object with no member, or with one member whose value is a scalar,
\* whitespace allowed around the braces' content, the colon and the value
IsJsonObject(s) ==
    /\ Len(s) >= 2
    /\ s[1] = "{" /\ s[Len(s)] = "}"
    /\ LET inner == Strip(SubSeq(s, 2, Len(s) - 1))
           c     == MemberColon(inner)
       IN  \/ inner = <<>>
           \/ /\ c # 0
              /\ IsJsonString(Strip(SubSeq(inner, 1, c - 1)))
              /\ IsJsonScalar(Strip(SubSeq(inner, c + 1, Len(inner))))

JsonObject(s) ==
    LET inner == Strip(SubSeq(s, 2, Len(s) - 1))
        c     == MemberColon(inner)
        key   == Strip(SubSeq(inner, 1, c - 1))
    IN  IF inner = <<>> THEN PyDict(<<>>)
        ELSE PyDict([k \in {SubSeq(key, 2, Len(key) - 1)} |->
                        JsonScalar(Strip(SubSeq(inner, c + 1, Len(inner))))])

\* json.loads on the documents the modelled replies hold: scalars and objects
\* of at most one member parse; every other modelled text raises
JsonLoadsOk(s) == IsJsonScalar(s) \/ IsJsonObject(s)

JsonLoads(s) == IF IsJsonObject(s) THEN JsonObject(s) ELSE JsonScalar(s)

\* lines 203-222: JSON, then number, then boolean, then the string itself.
\* A string holding '.' goes to float(), which raises on every modelled text
\* that json.loads rejected.
ParseAnswer(answer) ==
    IF JsonLoadsOk(answer) THEN JsonLoads(answer)
    ELSE IF (\A i \in 1..Len(answer) : answer[i] # ".") /\ IsPyInt(answer)
         THEN PyInt(SignedVal(answer))
    ELSE IF LowerStr(answer) \in {JsonTrue, JsonFalse}
         THEN PyBool(LowerStr(answer) = JsonTrue)
    ELSE PyStr(answer)

extract_final_answer(response) == ParseAnswer(AnswerText(response))

----------------------------------------------------------------------------
\* Program constants

\* max_iterations
max_iterations == 20

\* question_data['question'][:200]
ExcerptLen == 200

\* main.py: the configured credentials
YOUR_EMAIL == "student@example.com"

YOUR_SECRET == "your-secret-string"

----------------------------------------------------------------------------
\* Bounds of the model

\* The number of leading iterations of a chain in which the environment picks
\* freely among all of its outcomes.  In every later iteration the outcomes
\* stay free that end the chain (a call that raises, a page with no submit
\* URL, a response with no field), and the one outcome that continues it is
\* the default one (a page with a submit URL, a reply with one marker, a
\* response {correct: true, url: <a URL not seen before>}).
MaxVaried == 1

----------------------------------------------------------------------------
\* The environment: requests, pages, replies, submission responses

AllReqs == {1, 2}

\* "https://q.t/"
QuizHost == <<"h","t","t","p","s",":","/","/","q",".","t","/">>

\* the quiz page the n-th submission points at: always a URL not seen before
QuizUrl(n) == QuizHost \o Dec(n)

StartUrl == QuizUrl(0)

SubmitUrlA == QuizHost \o <<"s">>

Question == <<"2","+","2","?">>

\* "2+2? Post your answer to https://q.t/s"
PageSum == Question \o <<" ">> \o PostPhrase \o SubmitUrlA

\* a page with no submit URL
PageBare == Question

\* a page longer than the excerpt kept in the trace
PageLong == [i \in 1..ExcerptLen |-> "x"] \o <<" ">> \o PostPhrase \o SubmitUrlA

\* "ok\nFINAL_ANSWER: 4"
Reply4 == <<"o","k","\n">> \o Marker \o <<" ","4">>

\* "FINAL_ANSWER: 1\nFINAL_ANSWER: 4"
ReplyTwo == Marker \o <<" ","1","\n">> \o Marker \o <<" ","4">>

\* "say hi", no marker
ReplyHi == <<"s","a","y"," ","h","i">>

ReasonLate == <<"l","a","t","e">>

Ok(text) == [ok |-> TRUE, text |-> text]

\* a rendered page: its visible text and its anchors
PageOk(text, links) == [ok |-> TRUE, text |-> text, links |-> links]

Raised(msg) == [ok |-> FALSE, error |-> msg]

\* a request never sent
NoRequest == [sent |-> FALSE]

\* a dict holding the fields given (each a tuple: empty, or the one value)
Body(e, s, u) ==
    [k \in (IF e = <<>> THEN {} ELSE {"email"}) \cup
           (IF s = <<>> THEN {} ELSE {"secret"}) \cup
           (IF u = <<>> THEN {} ELSE {"url"}) |->
        CASE k = "email"  -> e[1]
          [] k = "secret" -> s[1]
          [] k = "url"    -> u[1]]

\* the JSON objects a client may post: each field absent, right or wrong
Bodies ==
    { Body(e, s, u) :
        e \in {<<>>, <<YOUR_EMAIL>>, <<"other@example.com">>},
        s \in {<<>>, <<YOUR_SECRET>>, <<"wrong-secret">>},
        u \in {<<>>, <<StartUrl>>, << <<>> >>} }

Requests ==
    {[sent |-> TRUE, json |-> FALSE]} \cup
    {[sent |-> TRUE, json |-> TRUE, body |-> b] : b \in Bodies}

\* dict.get(k, default)
Get(d, k, default) == IF k \in DOMAIN d THEN d[k] ELSE default

\* Attachments: data_processor.py and lines 160-173 of solve_question

\* pat occurs in s ('pat in s')
Contains(s, pat) == \E i \in 1..Len(s) : OccursAt(s, i, pat)

\* a Python dict as the sequence of its <<key, value>> pairs in insertion
\* order; d[k] = v
Put(d, k, v) ==
    IF \E i \in 1..Len(d) : d[i][1] = k
    THEN [i \in 1..Len(d) |-> IF d[i][1] = k THEN <<k, v>> ELSE d[i]]
    ELSE Append(d, <<k, v>>)

\* the bytes of a file, by what they decode as and how much of it there is:
\* "text" is size characters 'a' in UTF-8, "csv" a one-column table of size
\* rows, "binary" bytes that are no UTF-8
File(kind, size) == [kind |-> kind, size |-> size]

\* content.decode('utf-8') of a text file and of a table: the header v and
\* the rows, each 1
TextOf(f) ==
    IF f.kind = "text" THEN [i \in 1..f.size |-> "a"]
    ELSE <<"v", "\n">> \o [i \in 1..(2 * f.size) |-> IF i % 2 = 1 THEN "1" ELSE "\n"]

SummaryError(msg) == [error |-> msg]

UnknownFileType == <<"U","n","k","n","o","w","n"," ","f","i","l","e"," ","t","y","p","e">>

\* DataProcessor.detect_file_type
detect_file_type(url) ==
    LET url_lower == LowerStr(url)
    IN  IF Contains(url_lower, <<".","p","d","f">>) THEN "pdf"
        ELSE IF Contains(url_lower, <<".","c","s","v">>) THEN "csv"
        ELSE IF Contains(url_lower, <<".","x","l","s","x">>) \/ Contains(url_lower, <<".","x","l","s">>) THEN "xlsx"
        ELSE IF Contains(url_lower, <<".","j","s","o","n">>) THEN "json"
        ELSE IF Contains(url_lower, <<".","t","x","t">>) THEN "txt"
        ELSE "unknown"

\* process_pdf, process_excel, process_json: none of the modelled files is a
\* PDF, a workbook or a JSON document, so the library raises and the function
\* returns the error summary
process_pdf(content) == SummaryError(<<"E","O","F"," ","m","a","r","k","e","r"," ","n","o","t"," ","f","o","u","n","d">>)

process_excel(content) == SummaryError(<<"F","i","l","e"," ","i","s"," ","n","o","t"," ","a"," ","z","i","p"," ","f","i","l","e">>)

process_json(content) == SummaryError(<<"E","x","p","e","c","t","i","n","g"," ","v","a","l","u","e">>)

\* process_csv: pandas reads the table or raises; of the summary the model
\* keeps type, shape and columns
process_csv(content) ==
    IF content.kind = "csv"
    THEN [type |-> "csv", shape |-> <<content.size, 1>>, columns |-> <<<<"v">>>>]
    ELSE SummaryError(<<"'","u","t","f","-","8","'"," ","c","o","d","e","c"," ","c","a","n","'","t"," ","d","e","c","o","d","e"," ","b","y","t","e"," ","0","x","f","f">>)

\* process_text: lines is len(text.split('\n'))
process_text(content) ==
    IF content.kind = "binary"
    THEN SummaryError(<<"'","u","t","f","-","8","'"," ","c","o","d","e","c"," ","c","a","n","'","t"," ","d","e","c","o","d","e"," ","b","y","t","e"," ","0","x","f","f"," ","i","n"," ","p","o","s","i","t","i","o","n"," ","0">>)
    ELSE LET text == TextOf(content)
         IN  [type |-> "text", content |-> text,
              lines |-> Cardinality({i \in 1..Len(text) : text[i] = "\n"}) + 1]

\* the summary process_files stores for one resource
SummaryFor(url, content) ==
    LET file_type == detect_file_type(url)
    IN  IF file_type = "pdf" THEN process_pdf(content)
        ELSE IF file_type = "csv" THEN process_csv(content)
        ELSE IF file_type = "xlsx" THEN process_excel(content)
        ELSE IF file_type = "json" THEN process_json(content)
        ELSE IF file_type = "txt" THEN process_text(content)
        ELSE SummaryError(UnknownFileType)

\* DataProcessor.process_files
RECURSIVE process_files(_)
process_files(file_contents) ==
    IF file_contents = <<>> THEN <<>>
    ELSE LET n    == Len(file_contents)
             item == file_contents[n]
         IN  Put(process_files(SubSeq(file_contents, 1, n - 1)),
                 item[1], SummaryFor(item[1], item[2]))

\* json.dumps(..., indent=2) of the summaries.  No string that is rendered
\* holds a character that json.dumps escapes: the notes are rendered, the text
\* of a table is not.
JsonStr(s) == <<"\"">> \o s \o <<"\"">>

Indent(n) == [i \in 1..n |-> " "]

RECURSIVE Join(_, _)
Join(parts, sep) ==
    IF parts = <<>> THEN <<>>
    ELSE IF Len(parts) = 1 THEN parts[1]
    ELSE Join(SubSeq(parts, 1, Len(parts) - 1), sep) \o sep \o parts[Len(parts)]

\* a list or an object of the rendered items, its bracket at indentation n
JsonBlock(open, items, close, n) ==
    IF items = <<>> THEN <<open, close>>
    ELSE <<open, "\n">>
         \o Join([i \in 1..Len(items) |-> Indent(n + 2) \o items[i]], <<",", "\n">>)
         \o <<"\n">> \o Indent(n) \o <<close>>

JsonMember(key, value) == JsonStr(key) \o <<":", " ">> \o value

\* one summary, an object at indentation 2
JsonSummary(sm) ==
    JsonBlock("{",
        IF "error" \in DOMAIN sm
        THEN <<JsonMember(<<"e","r","r","o","r">>, JsonStr(sm.error))>>
        ELSE IF sm.type = "csv"
        THEN <<JsonMember(<<"t","y","p","e">>, JsonStr(<<"c","s","v">>)),
               JsonMember(<<"s","h","a","p","e">>,
                   JsonBlock("[", <<Dec(sm.shape[1]), Dec(sm.shape[2])>>, "]", 4)),
               JsonMember(<<"c","o","l","u","m","n","s">>,
                   JsonBlock("[", [i \in 1..Len(sm.columns) |-> JsonStr(sm.columns[i])],
                             "]", 4))>>
        ELSE <<JsonMember(<<"t","y","p","e">>, JsonStr(<<"t","e","x","t">>)),
               JsonMember(<<"c","o","n","t","e","n","t">>, JsonStr(sm.content)),
               JsonMember(<<"l","i","n","e","s">>, Dec(sm.lines))>>,
        "}", 2)

JsonDumps(processed_data) ==
    JsonBlock("{",
        [i \in 1..Len(processed_data) |->
            JsonMember(processed_data[i][1], JsonSummary(processed_data[i][2]))],
        "}", 0)

\* line 173: the character budget of the rendering
ContextBudget == 5000

\* the slice without its bound
TruncateNever(text) == text

\* line 173: [:5000]
Truncate(text) == Take(text, ContextBudget)

\* line 163: the suffixes of the links that are downloaded
DownloadSuffixes == <<<<".","p","d","f">>, <<".","c","s","v">>, <<".","x","l","s","x">>, <<".","j","s","o","n">>, <<".","t","x","t">>>>

\* every link is downloaded
IsAttachmentAny(href) == TRUE

IsAttachment(href) ==
    \E k \in 1..Len(DownloadSuffixes) : Contains(LowerStr(href), DownloadSuffixes[k])

\* the links that are downloaded, by their index
Wanted(links) == {k \in 1..Len(links) : IsAttachment(links[k].href)}

\* lines 161-168: file_contents, from the links and the outcome dl[k] of the
\* download of each link k that is an attachment; a failed download is skipped
RECURSIVE Downloaded(_, _)
Downloaded(links, dl) ==
    IF links = <<>> THEN <<>>
    ELSE LET n    == Len(links)
             rest == Downloaded(SubSeq(links, 1, n - 1), dl)
         IN  IF IsAttachment(links[n].href) /\ dl[n].ok
             THEN Put(rest, links[n].href, dl[n].file)
             ELSE rest

\* the downloads made, in the order of the links, each with its outcome
RECURSIVE Gets(_, _)
Gets(links, dl) ==
    IF links = <<>> THEN <<>>
    ELSE LET n    == Len(links)
             rest == Gets(SubSeq(links, 1, n - 1), dl)
         IN  IF IsAttachment(links[n].href)
             THEN Append(rest, [url |-> links[n].href, out |-> dl[n]])
             ELSE rest

\* what the model keeps of a summary: its type, or its error
Digest(sm) == IF "error" \in DOMAIN sm THEN sm ELSE [type |-> sm.type]

\* what the reasoning call is given of the attachments: the summaries by URL
\* and the rendering appended to the context, by its length, its last
\* character and whether it is the whole of json.dumps
NoFiles == [files |-> <<>>, length |-> 0, last |-> "", whole |-> TRUE]

Attached(file_contents) ==
    IF file_contents = <<>> THEN NoFiles
    ELSE LET processed_data == process_files(file_contents)
             rendering      == JsonDumps(processed_data)
         IN  [files  |-> [i \in 1..Len(processed_data) |->
                            <<processed_data[i][1], Digest(processed_data[i][2])>>],
              length |-> Len(Truncate(rendering)),
              last   |-> Truncate(rendering)[Len(Truncate(rendering))],
              whole  |-> Truncate(rendering) = rendering]

\* the quiz whose page links files
FilesUrl == QuizHost \o <<"f">>

Link(text, href) == [text |-> text, href |-> href]

CsvHref == QuizHost \o <<"d",".","C","S","V">>

TxtHref == QuizHost \o <<"n",".","t","x","t">>

ZipHref == QuizHost \o <<"a",".","z","i","p">>

XlsHref == QuizHost \o <<"b",".","x","l","s">>

\* a table, notes and an archive
LinksBatch == <<Link("data", CsvHref), Link("notes", TxtHref), Link("more", ZipHref)>>

LinksZip == <<Link("more", ZipHref)>>

Got(file) == [ok |-> TRUE, file |-> file]

\* rows of the modelled table, characters of the short notes
FewRows == 2

\* what http_client.get and raise_for_status give for a link
DownloadOutcomes(href) ==
    {Raised("HTTPStatusError")} \cup
    (IF detect_file_type(href) = "csv"
     THEN {Got(File("csv", FewRows)), Got(File("binary", FewRows))}
     ELSE {Got(File("text", FewRows)), Got(File("text", ContextBudget))})

\* the quizzes of two clients who post at the same time: quiz a and quiz b,
\* each of PairLen pages after its first
PairLen == 2

PairLetters == <<"a", "b">>

PairUrl(r, k) == QuizHost \o <<PairLetters[r]>> \o Dec(k)

IsPairUrl(url) ==
    /\ Len(url) > Len(QuizHost) + 1
    /\ \E r \in 1..2 : SubSeq(url, 1, Len(QuizHost) + 1) = QuizHost \o <<PairLetters[r]>>

\* page n of the quiz that cur belongs to
PairNext(cur, n) == SubSeq(cur, 1, Len(QuizHost) + 1) \o Dec(n)

\* what page.goto / page.content / page.evaluate give for the URL cur; the long
\* page is one the start URL may serve, the pages with links are those of the
\* files quiz
PageOutcomes(free, cur) ==
    IF cur = FilesUrl
    THEN {Raised("Timeout 30000ms exceeded"),
          PageOk(PageSum, LinksBatch), PageOk(PageSum, LinksZip)}
    ELSE {Raised("Timeout 30000ms exceeded"), PageOk(PageBare, <<>>), PageOk(PageSum, <<>>)} \cup
         (IF free /\ cur = StartUrl THEN {PageOk(PageLong, <<>>)} ELSE {})

\* what the reasoning call gives
ReplyOutcomes(free) ==
    {Raised("APIConnectionError"), Ok(Reply4)} \cup
    (IF free THEN {Ok(ReplyTwo), Ok(ReplyHi)} ELSE {})

\* what the POST to the submit URL gives: an exception (transport error,
\* raise_for_status, undecodable body), a JSON value that is no object, or a
\* JSON object with any of correct, url and reason.  n is the number of the
\* submission and cur the URL being answered.
SubmitOutcomes(free, n, cur) ==
    IF IsPairUrl(cur)
    THEN { [kind |-> "raise", error |-> "HTTPStatusError"],
           [kind |-> "dict", body |-> [x \in {} |-> TRUE]] } \cup
         (IF n <= PairLen
          THEN { [kind |-> "dict", body |-> [correct |-> TRUE, url |-> PairNext(cur, n)]] }
          ELSE {})
    ELSE
    { [kind |-> "raise", error |-> "HTTPStatusError"] } \cup
    (IF free
     THEN { [kind |-> "nondict", error |-> "'list' object has no attribute 'get'"] }
     ELSE {}) \cup
    { [kind |-> "dict", body |-> d] : d \in
        { [correct |-> TRUE, url |-> QuizUrl(n)],
          [x \in {} |-> TRUE] } \cup
        (IF free
         THEN { [correct |-> TRUE],
                [correct |-> FALSE, url |-> QuizUrl(n)],
                [correct |-> FALSE, url |-> cur, reason |-> ReasonLate],
                [url |-> QuizUrl(n), reason |-> ReasonLate],
                [correct |-> FALSE, reason |-> ReasonLate],
                [correct |-> TRUE, url |-> <<>>],
                [reason |-> ReasonLate] }
         ELSE {}) }

----------------------------------------------------------------------------
\* State

VARIABLES
    req,      \* req[r]: the body of request r, chosen by the client
    http,     \* http[r]: the HTTP response to request r, NoResp before it is sent
    solver,   \* solver[r]: the QuizSolver constructed for request r
    tasks,    \* tasks[r]: the background tasks added for request r
    chain,    \* chain[r]: the frame of solve_quiz_chain run for request r
    calls,    \* calls[r]: the external calls that run has made, with their outcomes
    fcall     \* a call of one of the pure functions on its own: function, argument, value

vars == <<req, http, solver, tasks, chain, calls, fcall>>

\* no pure function has been called
NoCall(text) == [fn |-> "none", arg |-> text, val |-> None]

NoResp == [status |-> 0]

NoSolver == [made |-> FALSE]

\* question_data before the first assignment to it
NoPage == [question |-> <<>>, links |-> <<>>, submit_url |-> None]

\* the frame before the task starts: every local is unbound, and the model
\* reads none of them before the code assigns it
NoFrame ==
    [pc |-> "idle", current_url |-> <<>>, results |-> <<>>, iteration |-> 0,
     playwright |-> "none", browser |-> "none",
     question_data |-> NoPage, answer |-> PyNull, response |-> [x \in {} |-> TRUE],
     ret |-> [returned |-> FALSE]]

\* One client sends one request, any of Requests; the second slot is that of a
\* concurrent client, who sends nothing here.
Init ==
    /\ req \in [AllReqs -> Requests \cup {NoRequest}]
    /\ req[1] # NoRequest
    /\ req[2] = NoRequest
    /\ http = [r \in AllReqs |-> NoResp]
    /\ solver = [r \in AllReqs |-> NoSolver]
    /\ tasks = [r \in AllReqs |-> <<>>]
    /\ chain = [r \in AllReqs |-> NoFrame]
    /\ calls = [r \in AllReqs |-> <<>>]
    /\ fcall = NoCall(<<>>)

----------------------------------------------------------------------------
\* main.py: POST /solve

\* What FastAPI finds wrong with a body read as a QuizRequest (three required
\* string fields): a body that is no JSON, or one problem per missing field.
ValidationErrors(q) ==
    IF ~q.json THEN <<[type |-> "json_invalid", loc |-> <<"body">>]>>
    ELSE LET miss(f) == IF f \in DOMAIN q.body THEN <<>>
                        ELSE <<[type |-> "missing", loc |-> <<"body", f>>]>>
         IN  miss("email") \o miss("secret") \o miss("url")

\* the mutant of ValidationResponse: FastAPI's own status for a bad body
ValidationResponse422(errs) ==
    [status |-> 422, content |-> [detail |-> "Invalid request body", errors |-> errs]]

\* validation_exception_handler
ValidationResponse(errs) ==
    [status |-> 400, content |-> [detail |-> "Invalid request body", errors |-> errs]]

\* the mutant of AuthDetail: the email is not verified
AuthDetailSecretOnly(body) ==
    IF body.secret # YOUR_SECRET THEN <<"Invalid secret">> ELSE <<>>

\* the detail of the HTTPException the two checks raise, <<>> when both pass
AuthDetail(body) ==
    IF body.secret # YOUR_SECRET THEN <<"Invalid secret">>
    ELSE IF body.email # YOUR_EMAIL THEN <<"Invalid email">>
    ELSE <<>>

\* HTTPException(status_code=403, detail=...) as FastAPI renders it
Forbidden(detail) == [status |-> 403, content |-> [detail |-> detail]]

\* the mutant of Accepted: another success status
Accepted202 ==
    [status |-> 202,
     content |-> [status |-> "success", message |-> "Quiz processing started in background"]]

\* the JSONResponse of the handler
Accepted ==
    [status |-> 200,
     content |-> [status |-> "success", message |-> "Quiz processing started in background"]]

\* QuizSolver.__init__: assignments and client constructors only, nothing in
\* it performs I/O, so the handler's `except Exception` branch has no cause
NewSolver(email, secret) ==
    [made |-> TRUE, email |-> email, secret |-> secret, http_client |-> "open"]

\* the task is given one URL whatever the request holds
AddTaskFixedUrl(ts, url) == Append(ts, [fn |-> "solve_quiz_chain", arg |-> StartUrl])

\* background_tasks.add_task(solver.solve_quiz_chain, request.url)
AddTask(ts, url) == Append(ts, [fn |-> "solve_quiz_chain", arg |-> url])

\* The whole handling of one request: body validation, then solve_quiz.
Handle(r) ==
    /\ req[r].sent
    /\ http[r] = NoResp
    /\ LET errs == ValidationErrors(req[r])
       IN  IF errs # <<>>
           THEN /\ http' = [http EXCEPT ![r] = ValidationResponse(errs)]
                /\ UNCHANGED <<solver, tasks>>
           ELSE IF AuthDetail(req[r].body) # <<>>
           THEN /\ http' = [http EXCEPT ![r] = Forbidden(AuthDetail(req[r].body)[1])]
                /\ UNCHANGED <<solver, tasks>>
           ELSE /\ solver' = [solver EXCEPT
                        ![r] = NewSolver(req[r].body.email, req[r].body.secret)]
                /\ tasks' = [tasks EXCEPT ![r] = AddTask(tasks[r], req[r].body.url)]
                /\ http' = [http EXCEPT ![r] = Accepted]
    /\ UNCHANGED <<fcall, req, chain, calls>>

----------------------------------------------------------------------------
\* quiz_solver.py: QuizSolver.solve_quiz_chain

\* the mutant of LoopCond: the cap is off by one
LoopCondOffByOne(current_url, iteration) ==
    Truthy(current_url) /\ iteration <= max_iterations

\* while current_url and iteration < max_iterations
LoopCond(current_url, iteration) ==
    Truthy(current_url) /\ iteration < max_iterations

\* the truthiness of response.get(k)
Has(response, k) ==
    /\ k \in DOMAIN response
    /\ IF k = "correct" THEN response[k] ELSE Truthy(response[k])

\* the mutant of FollowsUrl: a wrong answer stays on the current URL
FollowsUrlWhenCorrect(response) == Has(response, "correct") /\ Has(response, "url")

\* lines 66-70: the two branches that assign current_url
FollowsUrl(response) ==
    \/ Has(response, "correct") /\ Has(response, "url")
    \/ ~Has(response, "correct") /\ Has(response, "url")

\* the mutant of AfterAnswer: the submit URL is not looked at
AfterAnswerUnchecked(submit_url) == "submit"

\* lines 46-49: where the iteration goes once the answer is there
AfterAnswer(submit_url) == IF Truthy(submit_url) THEN "submit" ELSE "close"

\* the mutant of ErrorRecord: the failure is logged and not recorded
ErrorRecordDropped(results, url, msg) == results

\* the mutant of ErrorRecord: the failure is put at the head of the trace
ErrorRecordFirst(results, url, msg) == <<[url |-> url, error |-> msg]>> \o results

\* lines 77-80
ErrorRecord(results, url, msg) == Append(results, [url |-> url, error |-> msg])

\* the record that takes a missing `correct` for a right answer
StepRecordLenient(url, question_data, answer, response) ==
    [url      |-> url,
     question |-> Take(question_data.question, ExcerptLen),
     answer   |-> answer,
     correct  |-> Get(response, "correct", TRUE),
     reason   |-> Get(response, "reason", None)]

\* the record that names the URL the submission answered with, where it gave one
StepRecordNextUrl(url, question_data, answer, response) ==
    [url      |-> Get(response, "url", url),
     question |-> Take(question_data.question, ExcerptLen),
     answer   |-> answer,
     correct  |-> Get(response, "correct", FALSE),
     reason   |-> Get(response, "reason", None)]

\* lines 57-63
StepRecord(url, question_data, answer, response) ==
    [url      |-> url,
     question |-> Take(question_data.question, ExcerptLen),
     answer   |-> answer,
     correct  |-> Get(response, "correct", FALSE),
     reason   |-> Get(response, "reason", None)]

\* the mutant of ChainResult: only the right answers are counted
ChainResultCorrectOnly(results) ==
    [total_solved |-> Cardinality({k \in 1..Len(results) :
                                      "correct" \in DOMAIN results[k] /\ results[k].correct}),
     results      |-> results]

\* line 86
ChainResult(results) == [total_solved |-> Len(results), results |-> results]

\* the payload without the quiz URL
PayloadNoUrl(s, quiz_url, answer) ==
    [email |-> s.email, secret |-> s.secret, answer |-> answer]

\* submit_answer: the JSON body posted
Payload(s, quiz_url, answer) ==
    [email |-> s.email, secret |-> s.secret, url |-> quiz_url, answer |-> answer]

Free(c) ==
    /\ c.iteration <= MaxVaried
    /\ c.current_url # FilesUrl
    /\ ~IsPairUrl(c.current_url)

\* Starlette runs the background task once the response is sent: lines 24-27
Begin(r) ==
    /\ http[r] # NoResp
    /\ tasks[r] # <<>>
    /\ chain[r].pc = "idle"
    /\ chain' = [chain EXCEPT ![r] =
                    [@ EXCEPT !.pc = "launch", !.current_url = tasks[r][1].arg,
                              !.results = <<>>, !.iteration = 0]]
    /\ UNCHANGED <<fcall, req, http, solver, tasks, calls>>

\* lines 29-30: async_playwright() is entered and the browser launched; either
\* may raise, and the exception leaves solve_quiz_chain through the `async with`
Launch(r) ==
    /\ chain[r].pc = "launch"
    /\ \E o \in {"ok", "no_driver", "launch_failed"} :
          chain' = [chain EXCEPT ![r] =
              CASE o = "ok" ->
                     [@ EXCEPT !.pc = "loop", !.playwright = "started", !.browser = "open"]
                [] o = "no_driver" ->
                     [@ EXCEPT !.pc = "raised"]
                [] o = "launch_failed" ->
                     [@ EXCEPT !.pc = "raised", !.playwright = "stopped"]]
    /\ UNCHANGED <<fcall, req, http, solver, tasks, calls>>

\* lines 32-34
LoopHead(r) ==
    /\ chain[r].pc = "loop"
    /\ chain' = [chain EXCEPT ![r] =
          IF LoopCond(@.current_url, @.iteration)
          THEN [@ EXCEPT !.iteration = @ + 1, !.pc = "extract"]
          ELSE [@ EXCEPT !.pc = "close"]]
    /\ UNCHANGED <<fcall, req, http, solver, tasks, calls>>

\* lines 36-39 and 75-81: extract_question
Extract(r) ==
    /\ chain[r].pc = "extract"
    /\ \E o \in PageOutcomes(Free(chain[r]), chain[r].current_url) :
          /\ calls' = [calls EXCEPT ![r] =
                          Append(@, [op |-> "goto", url |-> chain[r].current_url, out |-> o])]
          /\ chain' = [chain EXCEPT ![r] =
                IF o.ok
                THEN [@ EXCEPT !.question_data =
                                  [question |-> o.text, links |-> o.links,
                                   submit_url |-> extract_submit_url(o.text)],
                               !.pc = "solve"]
                ELSE [@ EXCEPT !.results = ErrorRecord(@, chain[r].current_url, o.error),
                               !.pc = "close"]]
    /\ UNCHANGED <<fcall, req, http, solver, tasks>>

\* the outcomes of the downloads of one page: one for each link downloaded
DownloadChoices(links) ==
    {dl \in [Wanted(links) -> UNION {DownloadOutcomes(links[k].href) : k \in Wanted(links)}] :
        \A k \in Wanted(links) : dl[k] \in DownloadOutcomes(links[k].href)}

\* lines 42-49 and 75-81: solve_question (the downloads of lines 160-168, the
\* summaries of lines 171-173, the reasoning call), then the submit URL is
\* looked at
Solve(r) ==
    /\ chain[r].pc = "solve"
    /\ \E dl \in DownloadChoices(chain[r].question_data.links) :
           \E o \in ReplyOutcomes(Free(chain[r])) :
               /\ calls' = [calls EXCEPT ![r] =
                     Append(@, [op |-> "reason", url |-> chain[r].current_url,
                                gets |-> Gets(chain[r].question_data.links, dl),
                                attached |-> Attached(Downloaded(chain[r].question_data.links, dl)),
                                out |-> o])]
               /\ chain' = [chain EXCEPT ![r] =
                     IF o.ok
                     THEN [@ EXCEPT !.answer = extract_final_answer(o.text),
                                    !.pc = AfterAnswer(chain[r].question_data.submit_url)]
                     ELSE [@ EXCEPT !.results = ErrorRecord(@, chain[r].current_url, o.error),
                                    !.pc = "close"]]
    /\ UNCHANGED <<fcall, req, http, solver, tasks>>

\* lines 51-73 and 75-81: submit_answer, the record, the next URL
Submit(r) ==
    /\ chain[r].pc = "submit"
    /\ \E o \in SubmitOutcomes(Free(chain[r]), chain[r].iteration, chain[r].current_url) :
          /\ calls' = [calls EXCEPT ![r] =
                          Append(@, [op |-> "post", url |-> chain[r].current_url,
                                     to |-> chain[r].question_data.submit_url,
                                     json |-> Payload(solver[r], chain[r].current_url,
                                                      chain[r].answer),
                                     out |-> o])]
          /\ chain' = [chain EXCEPT ![r] =
                IF o.kind = "dict"
                THEN [@ EXCEPT !.response = o.body,
                               !.results = Append(@, StepRecord(chain[r].current_url,
                                                   chain[r].question_data,
                                                   chain[r].answer, o.body)),
                               !.current_url = IF FollowsUrl(o.body) THEN o.body.url ELSE @,
                               !.pc = IF FollowsUrl(o.body) THEN "loop" ELSE "close"]
                ELSE [@ EXCEPT !.results = ErrorRecord(@, chain[r].current_url, o.error),
                               !.pc = "close"]]
    /\ UNCHANGED <<fcall, req, http, solver, tasks>>

\* line 83, and the exit of the `async with`
CloseBrowser(r) ==
    /\ chain[r].pc = "close"
    /\ chain' = [chain EXCEPT ![r] =
                    [@ EXCEPT !.browser = "closed", !.playwright = "stopped",
                              !.pc = "aclose"]]
    /\ UNCHANGED <<fcall, req, http, solver, tasks, calls>>

\* lines 85-86
Return(r) ==
    /\ chain[r].pc = "aclose"
    /\ solver' = [solver EXCEPT ![r].http_client = "closed"]
    /\ chain' = [chain EXCEPT ![r] =
                    [@ EXCEPT !.pc = "returned",
                              !.ret = [returned |-> TRUE, value |-> ChainResult(chain[r].results)]]]
    /\ UNCHANGED <<fcall, req, http, tasks, calls>>

Next ==
    \E r \in AllReqs :
        \/ Handle(r)
        \/ Begin(r)
        \/ Launch(r)
        \/ LoopHead(r)
        \/ Extract(r)
        \/ Solve(r)
        \/ Submit(r)
        \/ CloseBrowser(r)
        \/ Return(r)

Spec == Init /\ [][Next]_vars

----------------------------------------------------------------------------
\* The text functions called on their own: extract_submit_url and
\* extract_final_answer applied to one text, any of Texts

UrlXYZ == <<"h","t","t","p","s",":","/","/","x",".","y","/","z">>

\* what a page text holds before the phrase: nothing, other words, an earlier
\* occurrence of the phrase with another URL, the phrase in capitals
UrlPrefixes ==
    { <<>>,
      <<"Q","."," ">>,
      <<"(","s","e","e"," ">>,
      <<"P","o","s","t"," ","y","o","u","r"," ","a","n","s","w","e","r"," ","t","o"," ","h","t","t","p",":","/","/","a",".","b","/","c"," ">>,
      <<"P","O","S","T"," ","Y","O","U","R"," ","A","N","S","W","E","R"," ","T","O"," ","h","t","t","p","s",":","/","/","u",".","v","/","w"," ">> }

\* the phrase as the code writes it, in lower case, or absent
UrlPhrases == {PostPhrase, LowerStr(PostPhrase), <<>>}

UrlTargets ==
    { <<"h","t","t","p","s",":","/","/","x",".","y","/","z">>,
      <<"h","t","t","p",":","/","/","x",".","y","/","z">>,
      <<"f","t","p",":","/","/","x",".","y","/","z">>,
      <<"h","t","t","p","s",":","/","/">> }

\* what follows the URL
UrlSuffixes ==
    { <<>>,
      <<".">>,
      <<",">>,
      <<")">>,
      <<" ","n","o","w">>,
      <<"\n">>,
      <<"/","a">> }

PageTexts ==
    {a \o b \o c \o d :
        a \in UrlPrefixes, b \in UrlPhrases, c \in UrlTargets, d \in UrlSuffixes}

\* what a reply holds before the marker line: nothing, a line of prose, an
\* earlier marker line, a line that mentions the marker
AnswerPrefixes ==
    { <<>>,
      <<"o","k","\n">>,
      <<"F","I","N","A","L","_","A","N","S","W","E","R",":"," ","7","\n">>,
      <<"u","s","e"," ","F","I","N","A","L","_","A","N","S","W","E","R",":"," ","x","\n">> }

AnswerMarkers == {Marker, LowerStr(Marker), <<>>}

\* between the marker and the answer
AnswerGaps == {<<" ">>, <<>>, <<"\n">>}

AnswerBodies ==
    { <<"4","2">>,
      <<"t","r","u","e">>,
      <<"{","\"","a","\"",":","1","}">>,
      <<"h","e","l","l","o"," ","w","o","r","l","d">>,
      <<"+","5">>,
      <<"T","r","u","e">>,
      <<"\"","h","i","\"">>,
      <<>> }

AnswerSuffixes ==
    { <<>>,
      <<"\n">>,
      <<"\n","b","y","e">>,
      <<" ","x">> }

ReplyTexts ==
    {a \o b \o c \o d \o e :
        a \in AnswerPrefixes, b \in AnswerMarkers, c \in AnswerGaps,
        d \in AnswerBodies, e \in AnswerSuffixes}

Texts == PageTexts \cup ReplyTexts

InitText ==
    /\ req = [r \in AllReqs |-> NoRequest]
    /\ http = [r \in AllReqs |-> NoResp]
    /\ solver = [r \in AllReqs |-> NoSolver]
    /\ tasks = [r \in AllReqs |-> <<>>]
    /\ chain = [r \in AllReqs |-> NoFrame]
    /\ calls = [r \in AllReqs |-> <<>>]
    /\ fcall \in {NoCall(t) : t \in Texts}

CallSubmitUrl ==
    /\ fcall.fn = "none"
    /\ fcall' = [fn |-> "extract_submit_url", arg |-> fcall.arg,
                 val |-> extract_submit_url(fcall.arg)]
    /\ UNCHANGED <<req, http, solver, tasks, chain, calls>>

CallFinalAnswer ==
    /\ fcall.fn = "none"
    /\ fcall' = [fn |-> "extract_final_answer", arg |-> fcall.arg,
                 val |-> extract_final_answer(fcall.arg)]
    /\ UNCHANGED <<req, http, solver, tasks, chain, calls>>

NextText == CallSubmitUrl \/ CallFinalAnswer

SpecText == InitText /\ [][NextText]_vars

----------------------------------------------------------------------------
\* The files quiz: one run that starts at FilesUrl, and process_files called
\* on its own on a mapping of one to three resources

\* the right credentials and the URL given
ValidRequest(url) ==
    [sent |-> TRUE, json |-> TRUE,
     body |-> Body(<<YOUR_EMAIL>>, <<YOUR_SECRET>>, <<url>>)]

Hrefs == {CsvHref, TxtHref, ZipHref, XlsHref}

Files == {File("csv", FewRows), File("text", FewRows), File("binary", FewRows)}

MaxFiles == 3

\* the mappings of up to MaxFiles URLs to bytes, in any order of insertion
FileMaps ==
    UNION { { m \in [1..n -> Hrefs \X Files] :
                \A i \in 1..n : \A j \in 1..n : m[i][1] = m[j][1] => i = j }
            : n \in 1..MaxFiles }

InitFiles ==
    /\ http = [r \in AllReqs |-> NoResp]
    /\ solver = [r \in AllReqs |-> NoSolver]
    /\ tasks = [r \in AllReqs |-> <<>>]
    /\ chain = [r \in AllReqs |-> NoFrame]
    /\ calls = [r \in AllReqs |-> <<>>]
    /\ \/ /\ req = [r \in AllReqs |-> IF r = 1 THEN ValidRequest(FilesUrl) ELSE NoRequest]
          /\ fcall = NoCall(<<>>)
       \/ /\ req = [r \in AllReqs |-> NoRequest]
          /\ fcall \in {NoCall(m) : m \in FileMaps}

\* line 172: called when file_contents holds something
CallProcessFiles ==
    /\ fcall.fn = "none"
    /\ fcall.arg # <<>>
    /\ fcall' = [fn |-> "process_files", arg |-> fcall.arg,
                 val |-> process_files(fcall.arg)]
    /\ UNCHANGED <<req, http, solver, tasks, chain, calls>>

NextFiles == Next \/ CallProcessFiles

SpecFiles == InitFiles /\ [][NextFiles]_vars

----------------------------------------------------------------------------
\* Two clients post at the same time: the first for quiz a, the second for
\* quiz a or quiz b.  The two handlers and the two runs interleave.

InitPair ==
    /\ req \in {[r \in AllReqs |-> ValidRequest(PairUrl(IF r = 1 THEN 1 ELSE q, 0))] : q \in 1..2}
    /\ http = [r \in AllReqs |-> NoResp]
    /\ solver = [r \in AllReqs |-> NoSolver]
    /\ tasks = [r \in AllReqs |-> <<>>]
    /\ chain = [r \in AllReqs |-> NoFrame]
    /\ calls = [r \in AllReqs |-> <<>>]
    /\ fcall = NoCall(<<>>)

SpecPair == InitPair /\ [][Next]_vars

----------------------------------------------------------------------------
\* Vocabulary of the properties

Last(s) == s[Len(s)]

\* the run has left the loop
Closing(c) == c.pc \in {"close", "aclose", "returned"}

IsErrorRecord(rec) == "error" \in DOMAIN rec

\* an external call that raised, or gave what the driver cannot read
Failed(call) == IF call.op = "post" THEN call.out.kind # "dict" ELSE ~call.out.ok

\* the step of run r that made an external call
Called(r) == calls'[r] # calls[r]

EndsWith(text, suffix) ==
    /\ Len(suffix) <= Len(text)
    /\ SubSeq(text, Len(text) - Len(suffix) + 1, Len(text)) = suffix

\* the request is a JSON object with the three fields
WellFormed(q) == q.sent /\ q.json /\ DOMAIN q.body = {"email", "secret", "url"}

Authentic(q) == q.body.email = YOUR_EMAIL /\ q.body.secret = YOUR_SECRET

\* nothing of a chain exists for request r
NoChainWork(r) ==
    /\ solver[r] = NoSolver
    /\ tasks[r] = <<>>
    /\ chain[r] = NoFrame
    /\ calls[r] = <<>>

----------------------------------------------------------------------------
\* C1: a run performs at most 20 iterations, whatever the submission endpoint
\* answers: every step leaves the iteration counter at least where it was and
\* at most at 20, the run extracts at most 20 pages, and the trace, in the
\* frame and as returned, holds at most 20 entries.
C1_IterationCap ==
    [][\A r \in AllReqs :
          /\ chain'[r].iteration >= chain[r].iteration
          /\ chain'[r].iteration <= 20
          /\ Cardinality({i \in 1..Len(calls'[r]) : calls'[r][i].op = "goto"}) <= 20
          /\ Len(chain'[r].results) <= 20
          /\ chain'[r].ret.returned => Len(chain'[r].ret.value.results) <= 20]_vars

\* a run that the endpoint sent to a fresh URL 20 times, stopped by the cap
C1_Witness ==
    \E r \in AllReqs :
        /\ chain[r].pc = "returned"
        /\ chain[r].iteration = 20
        /\ Len(chain[r].ret.value.results) = 20
        /\ chain[r].current_url = QuizUrl(20)
        /\ \A i \in 1..20 : chain[r].ret.value.results[i].url = QuizUrl(i - 1)

\* C2: a run whose extraction of the start URL fails returns exactly one
\* record, which carries the error message, and total_solved = 0.
C2_FirstExtractionFails ==
    \A r \in AllReqs :
        (/\ chain[r].pc = "returned"
         /\ calls[r] # <<>>
         /\ calls[r][1].op = "goto"
         /\ ~calls[r][1].out.ok)
        => /\ Len(chain[r].ret.value.results) = 1
           /\ IsErrorRecord(chain[r].ret.value.results[1])
           /\ chain[r].ret.value.results[1].error = calls[r][1].out.error
           /\ chain[r].ret.value.total_solved = 0

\* C3: no failure leaves solve_quiz_chain as an exception: whatever the
\* external calls do, the failure to start the rendering session included, the
\* run never ends by raising.
C3_NeverRaises == \A r \in AllReqs : chain[r].pc # "raised"

\* C4: the step in which extraction, reasoning or submission fails appends
\* exactly one record {url: the current URL, error: the message} and leaves
\* the loop; from then on the run makes no external call and the trace does
\* not change.
C4_FailureEndsChain ==
    [][\A r \in AllReqs :
          /\ (Called(r) /\ Failed(Last(calls'[r])))
             => /\ chain'[r].results =
                      Append(chain[r].results,
                             [url |-> chain[r].current_url,
                              error |-> Last(calls'[r]).out.error])
                /\ chain'[r].pc = "close"
          /\ (calls[r] # <<>> /\ Failed(Last(calls[r])))
             => /\ calls'[r] = calls[r]
                /\ chain'[r].results = chain[r].results
                /\ Closing(chain'[r])]_vars

\* a run that failed in its second iteration, at the submission, and returned
C4_Witness ==
    \E r \in AllReqs :
        /\ chain[r].pc = "returned"
        /\ chain[r].iteration = 2
        /\ Last(calls[r]).op = "post"
        /\ Failed(Last(calls[r]))
        /\ Len(chain[r].results) = 2
        /\ IsErrorRecord(chain[r].results[2])

\* C5: a submission that returns a JSON object with a `url` (the field present
\* and not empty) makes that URL the current one and the loop goes on, with
\* correct true, false or absent alike; one that returns no `url` ends the
\* loop, and once the loop has ended there is no further iteration or call.
C5_FollowsUrl ==
    [][\A r \in AllReqs :
          /\ (Called(r) /\ Last(calls'[r]).op = "post" /\ ~Failed(Last(calls'[r])))
             => LET d == Last(calls'[r]).out.body
                IN  IF "url" \in DOMAIN d /\ d.url # <<>>
                    THEN chain'[r].current_url = d.url /\ chain'[r].pc = "loop"
                    ELSE chain'[r].current_url = chain[r].current_url
                         /\ chain'[r].pc = "close"
          /\ Closing(chain[r])
             => /\ chain'[r].iteration = chain[r].iteration
                /\ calls'[r] = calls[r]
                /\ Closing(chain'[r])]_vars

\* a wrong answer whose response names the next URL: the run is on that URL
C5_Witness ==
    \E r \in AllReqs :
        /\ chain[r].pc = "extract"
        /\ chain[r].iteration = 2
        /\ Last(calls[r]).op = "post"
        /\ Last(calls[r]).out.kind = "dict"
        /\ Last(calls[r]).out.body = [correct |-> FALSE, url |-> QuizUrl(1)]
        /\ chain[r].current_url = QuizUrl(1)

\* the step of run r that follows the extraction of a page without submit URL
NoSubmitUrlStep(r) ==
    /\ chain[r].pc = "solve"
    /\ ~Truthy(chain[r].question_data.submit_url)
    /\ chain'[r].pc # "solve"

\* C6 as stated: when the page yields no submit URL the iteration ends the
\* loop, appends no record and submits nothing.
C6_Original ==
    [][\A r \in AllReqs :
          NoSubmitUrlStep(r)
          => /\ chain'[r].pc = "close"
             /\ chain'[r].results = chain[r].results
             /\ Last(calls'[r]).op # "post"]_vars

\* C6, amended: when the page yields no submit URL the iteration ends the loop
\* and submits nothing; it appends no record when the reasoning call returns,
\* and the one error record of the failure when the reasoning call raises.
\* The trace returned is the trace as the loop left it.
C6_NoSubmitUrl ==
    [][\A r \in AllReqs :
          /\ NoSubmitUrlStep(r)
             => /\ chain'[r].pc = "close"
                /\ Last(calls'[r]).op = "reason"
                /\ chain'[r].results =
                      IF Last(calls'[r]).out.ok THEN chain[r].results
                      ELSE Append(chain[r].results,
                                  [url |-> chain[r].current_url,
                                   error |-> Last(calls'[r]).out.error])
          /\ Closing(chain[r])
             => /\ chain'[r].results = chain[r].results
                /\ chain'[r].ret.returned
                   => chain'[r].ret.value.results = chain[r].results]_vars

\* a run whose second page had no submit URL: it returned the one record of
\* its first iteration
C6_Witness ==
    \E r \in AllReqs :
        /\ chain[r].pc = "returned"
        /\ chain[r].iteration = 2
        /\ ~Truthy(chain[r].question_data.submit_url)
        /\ Last(calls[r]).op = "reason"
        /\ Last(calls[r]).out.ok
        /\ Len(chain[r].ret.value.results) = 1
        /\ ~IsErrorRecord(chain[r].ret.value.results[1])

\* C7: a run whose start page holds a submit URL, whose first reply ends in
\* `FINAL_ANSWER: 4` and whose first submission returns {correct: true} with
\* no url, returns after one iteration with total_solved = 1, the answer the
\* number 4 and correct true.
C7_EndToEnd ==
    \A r \in AllReqs :
        (/\ chain[r].pc = "returned"
         /\ Len(calls[r]) >= 3
         /\ calls[r][1].op = "goto" /\ calls[r][1].out.ok
         /\ extract_submit_url(calls[r][1].out.text) # None
         /\ calls[r][2].op = "reason" /\ calls[r][2].out.ok
         /\ EndsWith(calls[r][2].out.text, Marker \o <<" ", "4">>)
         /\ calls[r][3].op = "post" /\ calls[r][3].out.kind = "dict"
         /\ calls[r][3].out.body = [correct |-> TRUE])
        => /\ chain[r].iteration = 1
           /\ chain[r].ret.value.total_solved = 1
           /\ chain[r].ret.value.results[1].answer = PyInt(4)
           /\ chain[r].ret.value.results[1].correct = TRUE

\* C8: a well-formed request whose secret or email is not the configured one
\* is answered 403, and nothing of a chain ever exists for it: no QuizSolver,
\* no background task, no run.
C8_RejectsBadCredentials ==
    \A r \in AllReqs :
        (WellFormed(req[r]) /\ ~Authentic(req[r]))
        => /\ NoChainWork(r)
           /\ http[r] # NoResp => http[r].status = 403

\* a request with the right secret and a wrong email, answered
C8_Witness ==
    \E r \in AllReqs :
        /\ WellFormed(req[r])
        /\ req[r].body.secret = YOUR_SECRET
        /\ req[r].body.email # YOUR_EMAIL
        /\ http[r] = [status |-> 403, content |-> [detail |-> "Invalid email"]]

\* C9: the step that answers a well-formed request with the configured email
\* and secret answers 200 with status "success", has constructed one solver
\* and added exactly one task, solve_quiz_chain on the request's url, and the
\* run has not begun; whatever the run does later, the response and the task
\* list stay as they are.
C9_AcceptsAndSchedules ==
    [][\A r \in AllReqs :
          /\ (WellFormed(req[r]) /\ Authentic(req[r])
                /\ http[r] = NoResp /\ http'[r] # NoResp)
             => /\ http'[r].status = 200
                /\ http'[r].content.status = "success"
                /\ solver'[r].made
                /\ tasks'[r] = <<[fn |-> "solve_quiz_chain", arg |-> req[r].body.url]>>
                /\ chain'[r] = NoFrame
          /\ http[r] # NoResp
             => http'[r] = http[r] /\ tasks'[r] = tasks[r]]_vars

\* an accepted request whose run has returned a trace ending in an error
C9_Witness ==
    \E r \in AllReqs :
        /\ http[r].status = 200
        /\ chain[r].pc = "returned"
        /\ chain[r].ret.value.results # <<>>
        /\ IsErrorRecord(Last(chain[r].ret.value.results))

\* C10: a request whose body is no JSON, or lacks email, secret or url, is
\* answered 400 with a list of validation problems, one per missing field or
\* one for the unreadable body, and nothing of a chain ever exists for it.
C10_RejectsMalformed ==
    \A r \in AllReqs :
        (req[r].sent /\ ~WellFormed(req[r]))
        => /\ NoChainWork(r)
           /\ http[r] # NoResp
              => /\ http[r].status = 400
                 /\ Len(http[r].content.errors) =
                       IF req[r].json
                       THEN Cardinality({"email", "secret", "url"} \ DOMAIN req[r].body)
                       ELSE 1
                 /\ \A i \in 1..Len(http[r].content.errors) :
                       http[r].content.errors[i].type =
                          IF req[r].json THEN "missing" ELSE "json_invalid"

\* a body with the url only, answered with its two problems
C10_Witness ==
    \E r \in AllReqs :
        /\ req[r].sent /\ req[r].json
        /\ DOMAIN req[r].body = {"url"}
        /\ http[r].status = 400
        /\ Len(http[r].content.errors) = 2

----------------------------------------------------------------------------
\* Vocabulary of the properties of the text functions

\* punctuation that ends a sentence or a clause after a URL
Punctuation == {".", ",", ")", ";", "!"}

\* text holds part at i, and nothing or punctuation or whitespace after it
OccursClosedAt(text, i, part) ==
    /\ OccursAt(text, i, part)
    /\ \/ i + Len(part) > Len(text)
       \/ text[i + Len(part)] \in Punctuation
       \/ IsSpace(text[i + Len(part)])

\* line is one of the lines of text
HasLine(text, line) ==
    \E i \in 1..Len(text) :
        /\ OccursAt(text, i, line)
        /\ i = 1 \/ text[i - 1] = "\n"
        /\ i + Len(line) > Len(text) \/ text[i + Len(line)] = "\n"

\* C12: for every text that holds `Post your answer to https://x.y/z`, the URL
\* followed by nothing, by punctuation or by whitespace, extract_submit_url
\* returns exactly https://x.y/z; for every text without the phrase it returns
\* none.
C12_ExactUrl ==
    fcall.fn = "extract_submit_url" =>
        /\ (\E i \in 1..Len(fcall.arg) :
                OccursClosedAt(fcall.arg, i, PostPhrase \o UrlXYZ))
            => fcall.val = UrlXYZ
        /\ (\A i \in 1..Len(fcall.arg) : ~OccursAt(fcall.arg, i, PostPhrase))
            => fcall.val = None

\* C13: for every reply with the line `FINAL_ANSWER: 42` extract_final_answer
\* yields the number 42; with `FINAL_ANSWER: true` the boolean true; with
\* `FINAL_ANSWER: {"a":1}` the JSON value {a: 1}; with
\* `FINAL_ANSWER: hello world` the string "hello world", whatever the lines
\* before and after the marker line hold.
C13_MarkerForms ==
    fcall.fn = "extract_final_answer" =>
        /\ HasLine(fcall.arg, Marker \o <<" ","4","2">>) => fcall.val = PyInt(42)
        /\ HasLine(fcall.arg, Marker \o <<" ","t","r","u","e">>) => fcall.val = PyBool(TRUE)
        /\ HasLine(fcall.arg, Marker \o <<" ","{","\"","a","\"",":","1","}">>)
            => fcall.val = PyDict([k \in {<<"a">>} |-> PyInt(1)])
        /\ HasLine(fcall.arg, Marker \o <<" ","h","e","l","l","o"," ","w","o","r","l","d">>)
            => fcall.val = PyStr(<<"h","e","l","l","o"," ","w","o","r","l","d">>)

\* the characters that end the URL: whitespace and ')'
UrlStops == {" ", "\t", "\n", "\r", ")"}

\* the phrase is at i, as written or in any case, and a URL starts after it:
\* http:// or https:// and one character of the URL at least
PhraseUrlAt(text, i, anycase) ==
    /\ IF anycase THEN OccursAtNoCase(text, i, PostPhrase)
       ELSE OccursAt(text, i, PostPhrase)
    /\ \E scheme \in {<<"h","t","t","p",":","/","/">>, <<"h","t","t","p","s",":","/","/">>} :
        LET j == i + Len(PostPhrase) + Len(scheme)
        IN  /\ OccursAt(text, i + Len(PostPhrase), scheme)
            /\ j <= Len(text)
            /\ text[j] \notin UrlStops

\* url is the maximal run of characters other than whitespace and ')' that
\* follows the first occurrence of the phrase with a URL in text, and none
\* when there is no occurrence
FirstMaximalRun(text, url, anycase) ==
    LET hits == {i \in 1..Len(text) : PhraseUrlAt(text, i, anycase)}
    IN  IF hits = {} THEN url = None
        ELSE LET j == Min(hits) + Len(PostPhrase)
             IN  /\ url # None
                 /\ OccursAt(text, j, url)
                 /\ \A k \in 1..Len(url) : url[k] \notin UrlStops
                 /\ j + Len(url) > Len(text) \/ text[j + Len(url)] \in UrlStops

\* C18 as the spec states it: extract_submit_url matches the phrase in any
\* case and returns the URL of the first occurrence, the maximal run of
\* non-whitespace, non-')' characters that starts with http:// or https://.
C18_Original ==
    fcall.fn = "extract_submit_url" => FirstMaximalRun(fcall.arg, fcall.val, TRUE)

\* C18, amended: extract_submit_url matches the phrase as it is written,
\* capital P and lower case after it, and returns the URL of the first such
\* occurrence, the maximal run of non-whitespace, non-')' characters that
\* starts with http:// or https://; it returns none when the phrase occurs in
\* another case only.
C18_CaseSensitive ==
    fcall.fn = "extract_submit_url" => FirstMaximalRun(fcall.arg, fcall.val, FALSE)

\* the phrase in capitals with one URL, then the phrase as written with
\* another URL in parentheses: the second URL is returned, without the ')'
C18_Witness ==
    /\ fcall.fn = "extract_submit_url"
    /\ fcall.arg = <<"P","O","S","T"," ","Y","O","U","R"," ","A","N","S","W","E","R"," ","T","O"," ","h","t","t","p","s",":","/","/","u",".","v","/","w"," ">> \o PostPhrase \o UrlXYZ \o <<")">>
    /\ fcall.val = UrlXYZ

----------------------------------------------------------------------------
\* Vocabulary of the properties of the attachments

\* the reasoning calls of run r made on a page that linked the table, the
\* notes and the archive, where the table was downloaded and the download of
\* the notes failed
BatchCalls(r) ==
    {i \in 2..Len(calls[r]) :
        /\ calls[r][i].op = "reason"
        /\ calls[r][i - 1].out.links = LinksBatch
        /\ \E k \in 1..Len(calls[r][i].gets) :
              calls[r][i].gets[k] = [url |-> CsvHref, out |-> Got(File("csv", FewRows))]
        /\ \E k \in 1..Len(calls[r][i].gets) :
              /\ calls[r][i].gets[k].url = TxtHref
              /\ ~calls[r][i].gets[k].out.ok}

\* the summaries the mapping holds for url
SummariesOf(files, url) == {files[k][2] : k \in {j \in 1..Len(files) : files[j][1] = url}}

C19_Budget ==
    [][\A r \in AllReqs :
         (Called(r) /\ Last(calls'[r]).op = "reason") =>
            /\ Last(calls'[r]).attached.length <= 5000
            /\ ~Last(calls'[r]).attached.whole => Last(calls'[r]).attached.length = 5000]_vars

\* notes of 5000 characters were downloaded: the rendering given to the
\* reasoning call is cut inside the notes
C19_Witness ==
    \E i \in 1..Len(calls[1]) :
        /\ calls[1][i].op = "reason"
        /\ \E k \in 1..Len(calls[1][i].gets) :
              calls[1][i].gets[k].out = Got(File("text", 5000))
        /\ ~calls[1][i].attached.whole
        /\ calls[1][i].attached.length = 5000
        /\ calls[1][i].attached.last = "a"

----------------------------------------------------------------------------
\* the run has ended, by returning or by raising
Ended(c) == c.pc \in {"returned", "raised"}

\* C14: on every path by which a run ends (normal completion, iteration cap,
\* missing submit URL, step failure, failure to launch the browser) the
\* rendering session it acquired has been released and the transport client of
\* its solver has been closed.
C14_Released ==
    \A r \in AllReqs :
        Ended(chain[r]) =>
            /\ chain[r].browser # "open"
            /\ chain[r].playwright # "started"
            /\ solver[r].http_client = "closed"

\* the run stands at a point of solve_quiz_chain from which its next step is
\* taken: before the launch, at the loop head, before one of the three calls
\* of an iteration, before browser.close(), before aclose()
Running(c) == c.pc \in {"launch", "loop", "extract", "solve", "submit", "close", "aclose"}

\* C15: every external call returning or raising, a run of solve_quiz_chain
\* that has started either has returned the ChainResult built from its trace,
\* or has a next step to take: it never stops short of returning.  (With the
\* iteration cap of C1 this is termination.)
C15_Terminates ==
    \A r \in AllReqs :
        chain[r].pc # "idle" =>
            \/ /\ chain[r].pc = "returned"
               /\ chain[r].ret.returned
               /\ chain[r].ret.value = ChainResult(chain[r].results)
            \/ Running(chain[r])

----------------------------------------------------------------------------
\* C16: the calls of a run come one at a time in the order extract, answer,
\* submit: an
\* extraction opens the run or follows a submission that was answered, the
\* reasoning call follows the successful extraction of the same URL, and a
\* submission follows the successful reasoning call and extraction of the
\* same URL.  The submission goes to the submit URL of that page, and its
\* payload is {email, secret, url, answer} with the URL of that page and the
\* answer extracted from that reply.
C16_OrderAndPayload ==
    [][\A r \in AllReqs :
         Called(r) =>
            LET i == Len(calls'[r])
                c == calls'[r][i]
            IN  /\ i = Len(calls[r]) + 1
                /\ c.op = "goto" =>
                    \/ i = 1
                    \/ calls[r][i - 1].op = "post" /\ calls[r][i - 1].out.kind = "dict"
                /\ c.op = "reason" =>
                    /\ i >= 2
                    /\ calls[r][i - 1].op = "goto"
                    /\ calls[r][i - 1].out.ok
                    /\ calls[r][i - 1].url = c.url
                /\ c.op = "post" =>
                    /\ i >= 3
                    /\ calls[r][i - 1].op = "reason"
                    /\ calls[r][i - 1].out.ok
                    /\ calls[r][i - 1].url = c.url
                    /\ calls[r][i - 2].op = "goto"
                    /\ calls[r][i - 2].out.ok
                    /\ calls[r][i - 2].url = c.url
                    /\ c.to # None
                    /\ c.to = extract_submit_url(calls[r][i - 2].out.text)
                    /\ c.json = [email  |-> solver[r].email,
                                 secret |-> solver[r].secret,
                                 url    |-> calls[r][i - 2].url,
                                 answer |-> extract_final_answer(calls[r][i - 1].out.text)]]_vars

\* the second iteration of a run has submitted: the answer 4 for the second
\* URL, to the submit URL of the second page
C16_Witness ==
    /\ Len(calls[1]) >= 6
    /\ calls[1][4].op = "goto" /\ calls[1][4].url = QuizUrl(1)
    /\ calls[1][5].op = "reason"
    /\ calls[1][6].op = "post"
    /\ calls[1][6].to = SubmitUrlA
    /\ calls[1][6].json.url = QuizUrl(1)
    /\ calls[1][6].json.answer = PyInt(4)

\* C17: a submission response that is a JSON object is recorded as a step
\* record, never as an error record, whichever of correct, url and reason it
\* lacks: correct is false when the response has none, reason absent when it
\* has none, and without url the run leaves the loop with that record as its
\* last.
C17_MissingFields ==
    [][\A r \in AllReqs :
         (chain[r].pc = "submit" /\ Called(r) /\ Last(calls'[r]).out.kind = "dict") =>
            LET d   == Last(calls'[r]).out.body
                rec == Last(chain'[r].results)
            IN  /\ Len(chain'[r].results) = Len(chain[r].results) + 1
                /\ ~IsErrorRecord(rec)
                /\ rec.url = chain[r].current_url
                /\ rec.correct = (IF "correct" \in DOMAIN d THEN d.correct ELSE FALSE)
                /\ rec.reason = (IF "reason" \in DOMAIN d THEN d.reason ELSE None)
                /\ "url" \notin DOMAIN d => chain'[r].pc = "close"]_vars

\* the endpoint answered {}: the run returned one step record, correct false,
\* no reason
C17_Witness ==
    /\ chain[1].pc = "returned"
    /\ Len(calls[1]) = 3
    /\ calls[1][3].op = "post"
    /\ calls[1][3].out.kind = "dict"
    /\ DOMAIN calls[1][3].out.body = {}
    /\ Len(chain[1].results) = 1
    /\ ~IsErrorRecord(chain[1].results[1])
    /\ chain[1].results[1].correct = FALSE
    /\ chain[1].results[1].reason = None

----------------------------------------------------------------------------
\* Vocabulary of the properties of concurrent runs

\* the current URL, the number of extractions and the trace that a run has
\* after the calls of log, from its start URL and those calls alone
RECURSIVE Replayed(_, _)
Replayed(start, log) ==
    IF log = <<>> THEN [current_url |-> start, extractions |-> 0, results |-> <<>>]
    ELSE LET n      == Len(log)
             c      == log[n]
             before == Replayed(start, SubSeq(log, 1, n - 1))
             failed == [url |-> c.url, error |-> c.out.error]
         IN  IF c.op = "goto"
             THEN [before EXCEPT !.extractions = @ + 1,
                                 !.results = IF c.out.ok THEN @ ELSE Append(@, failed)]
             ELSE IF c.op = "reason"
             THEN [before EXCEPT !.results = IF c.out.ok THEN @ ELSE Append(@, failed)]
             ELSE IF c.out.kind # "dict"
             THEN [before EXCEPT !.results = Append(@, failed)]
             ELSE [before EXCEPT
                     !.results = Append(@,
                         [url      |-> c.url,
                          question |-> Take(log[n - 2].out.text, 200),
                          answer   |-> extract_final_answer(log[n - 1].out.text),
                          correct  |-> IF "correct" \in DOMAIN c.out.body
                                       THEN c.out.body.correct ELSE FALSE,
                          reason   |-> IF "reason" \in DOMAIN c.out.body
                                       THEN c.out.body.reason ELSE None]),
                     !.current_url = IF "url" \in DOMAIN c.out.body /\ c.out.body.url # <<>>
                                     THEN c.out.body.url ELSE @]

\* the state of the browser and of the transport client of a run that stands
\* at pc
BrowserAt(pc) ==
    IF pc \in {"idle", "launch", "raised"} THEN "none"
    ELSE IF pc \in {"aclose", "returned"} THEN "closed"
    ELSE "open"

ClientAt(pc) == IF pc = "returned" THEN "closed" ELSE "open"

\* C20: two runs started by concurrent requests share no mutable state: under
\* every interleaving of their steps, the current URL, the iteration counter
\* and the trace of each run are those its own start URL and the outcomes of
\* its own external calls give, and the browser and the transport client of
\* each run are where that run's own progress puts them.
C20_Isolated ==
    \A r \in AllReqs :
        chain[r].pc # "idle" =>
            LET own == Replayed(req[r].body.url, calls[r])
            IN  /\ chain[r].current_url = own.current_url
                /\ chain[r].results = own.results
                /\ chain[r].iteration =
                      own.extractions + (IF chain[r].pc = "extract" THEN 1 ELSE 0)
                /\ chain[r].browser = BrowserAt(chain[r].pc)
                /\ solver[r].made
                /\ solver[r].http_client = ClientAt(chain[r].pc)

\* the first run has returned two records and closed its client while the
\* second, for the other quiz, is about to submit its first answer with its
\* browser and its client open
C20_Witness ==
    /\ chain[1].pc = "returned"
    /\ Len(chain[1].results) = 2
    /\ solver[1].http_client = "closed"
    /\ chain[2].pc = "submit"
    /\ chain[2].iteration = 1
    /\ chain[2].current_url = PairUrl(2, 0)
    /\ chain[2].browser = "open"
    /\ solver[2].http_client = "open"

----------------------------------------------------------------------------
\* Vocabulary of the properties of the trace

\* the keys of the two kinds of record
StepKeys == {"url", "question", "answer", "correct", "reason"}

ErrorKeys == {"url", "error"}

\* the positions of the error records of a trace
ErrorsIn(results) == {k \in 1..Len(results) : IsErrorRecord(results[k])}

\* a trace of success records, closed by at most one error record
SuccessesThenError(results) ==
    /\ ErrorsIn(results) \subseteq {Len(results)}
    /\ \A k \in 1..Len(results) :
          DOMAIN results[k] = (IF k \in ErrorsIn(results) THEN ErrorKeys ELSE StepKeys)

\* C21: at every step the trace of a run has at most one error record, and an
\* error record is its last entry: every entry before it is a success record
\* with the keys url, question, answer, correct and reason.  A trace that ends
\* in an error record is never changed again, and the trace that is returned
\* has the same form.
C21_ErrorIsLast ==
    [][\A r \in AllReqs :
          /\ SuccessesThenError(chain'[r].results)
          /\ ErrorsIn(chain[r].results) # {} => chain'[r].results = chain[r].results
          /\ chain'[r].ret.returned => SuccessesThenError(chain'[r].ret.value.results)]_vars

\* a run returned a trace of two success records and then an error record
C21_Witness ==
    \E r \in AllReqs :
        /\ chain[r].ret.returned
        /\ Len(chain[r].ret.value.results) = 3
        /\ ErrorsIn(chain[r].ret.value.results) = {3}
        /\ DOMAIN chain[r].ret.value.results[1] = StepKeys
        /\ DOMAIN chain[r].ret.value.results[2] = StepKeys

\* the calls of a log that left a record in the trace: a submission that was
\* answered with a JSON object, or a call that failed
Recorded(log) ==
    {k \in 1..Len(log) : Failed(log[k]) \/ (log[k].op = "post" /\ log[k].out.kind = "dict")}

\* C22: when solve_quiz_chain returns, total_solved is the number of entries
\* of the results it returns, which are the whole trace of the run: one entry
\* for each submission that was answered and one for the call that failed,
\* whether the answers were right or wrong.
C22_CountsEveryRecord ==
    [][\A r \in AllReqs :
          (chain'[r].ret.returned /\ ~chain[r].ret.returned) =>
              /\ chain'[r].ret.value.results = chain[r].results
              /\ chain'[r].ret.value.total_solved = Len(chain'[r].ret.value.results)
              /\ chain'[r].ret.value.total_solved = Cardinality(Recorded(calls[r]))]_vars

\* a run returned total_solved 3 for a right answer, a wrong answer and an
\* error record
C22_Witness ==
    \E r \in AllReqs :
        /\ chain[r].ret.returned
        /\ chain[r].ret.value.total_solved = 3
        /\ \E i, j \in 1..2 :
              /\ chain[r].ret.value.results[i].correct = TRUE
              /\ chain[r].ret.value.results[j].correct = FALSE
        /\ IsErrorRecord(chain[r].ret.value.results[3])

\* the submissions of a log that were answered with a JSON object, in order
Answered(log) == SelectSeq(log, LAMBDA c : c.op = "post" /\ c.out.kind = "dict")

\* C23: the trace is a chain of URLs.  The record an iteration appends is the
\* only one of that iteration: the n-th record is appended in the n-th
\* iteration, so the trace is never longer than the iteration count.  The
\* first record names the start URL; every later record names the `url` of
\* the JSON object that answered the submission of the record before it.
C23_LinkedChain ==
    [][\A r \in AllReqs :
          /\ Len(chain'[r].results) <= chain'[r].iteration
          /\ chain'[r].results # chain[r].results =>
                LET n     == Len(chain'[r].results)
                    posts == Answered(calls[r])
                IN  /\ chain'[r].results = Append(chain[r].results, chain'[r].results[n])
                    /\ chain'[r].iteration = chain[r].iteration
                    /\ n = chain[r].iteration
                    /\ n = 1 => chain'[r].results[1].url = tasks[r][1].arg
                    /\ n > 1 =>
                          /\ Len(posts) = n - 1
                          /\ posts[n - 1].url = chain[r].results[n - 1].url
                          /\ "url" \in DOMAIN posts[n - 1].out.body
                          /\ chain'[r].results[n].url = posts[n - 1].out.body.url]_vars

\* a run returned three records: the start URL, the start URL again because
\* the first submission was answered with the URL it was about, then the URL
\* the second submission was answered with
C23_Witness ==
    \E r \in AllReqs :
        /\ chain[r].ret.returned
        /\ Len(chain[r].results) = 3
        /\ chain[r].results[1].url = tasks[r][1].arg
        /\ chain[r].results[2].url = chain[r].results[1].url
        /\ chain[r].results[3].url # chain[r].results[2].url
        /\ Answered(calls[r])[2].out.body.url = chain[r].results[3].url

====
